---- MODULE Spec2Model ----
(***************************************************************************)
(* Model of the two scripts of the repository:                             *)
(*   src/main.py     the dataset expander (SpecExpander)                   *)
(*   src/install.py  the self-verifying dependency installer               *)
(*                   (SpecInstaller)                                       *)
(* The scripts share no state; each has its own specification, and the     *)
(* variables of the other script stay at their initial values.             *)
(*                                                                         *)
(* External services (the chat API, pip, the user at the console, the      *)
(* file system's contents at start) are nondeterministic inputs.  The      *)
(* local file system is assumed to accept writes: the IOError branch of    *)
(* append_to_csv is not taken.                                             *)
(***************************************************************************)
EXTENDS Integers, Sequences, FiniteSets, TLC

(***************************************************************************)
(* Bounds of the model                                                     *)
(***************************************************************************)
\* largest number of data rows of an input dataset
MaxCurrentRows == 3
\* largest target row count the user types
MaxTargetRows == 113
\* largest number of lines of a requirements manifest
MaxManifestLines == 3

(***************************************************************************)
(* Program constants                                                       *)
(***************************************************************************)
\* src/main.py:153   new_rows = min(50, rows_to_add - rows_added)
BatchCap == 50

Min(a, b) == IF a <= b THEN a ELSE b
Max(a, b) == IF a >= b THEN a ELSE b

(***************************************************************************)
(* Files of the expander.  A dataset file is its ordered sequence of data  *)
(* rows; a row is represented by its origin: 0 for a row of the input      *)
(* dataset, k >= 1 for a row parsed from the response to the k-th          *)
(* generation request, -1 for a row of an output file left by an earlier   *)
(* run.                                                                    *)
(***************************************************************************)
Rows(n, tag) == [i \in 1..n |-> tag]
NoFile == [exists |-> FALSE, rows |-> << >>]
DataFile(n, tag) == [exists |-> TRUE, rows |-> Rows(n, tag)]

\* what the user may name as input: a missing/unreadable file or a dataset
InputFiles == {NoFile} \cup {DataFile(n, 0) : n \in 0..MaxCurrentRows}
\* the output path before the run: absent, or left over from an earlier run
InitialOutputFiles == {NoFile, DataFile(2, -1)}
\* the integers the user types at the target prompt
TargetInputs == -1..MaxTargetRows

\* number of rows csv.reader finds in the text of a response to a request
\* for n rows: the API is free to return fewer, exactly n, or more
ResponseRowCounts(n) == {0, n - 1, n, n + 1, n + BatchCap + 1}

VARIABLES
  epc,          \* expander: position in main()
  input_file,   \* expander: the file named by the user
  target_rows,  \* expander: main.target_rows
  current_rows, \* expander: main.current_rows
  rows_to_add,  \* expander: main.rows_to_add
  rows_added,   \* expander: main.rows_added
  outFile,      \* expander: the output artifact expanded_<name>
  outWrites,    \* expander: number of times the output artifact was opened for writing
  apiCalls      \* expander: log of chat-API calls, in order

evars == <<epc, input_file, target_rows, current_rows, rows_to_add,
           rows_added, outFile, outWrites, apiCalls>>

VARIABLES
  pc,                 \* installer: position in main()
  hashFile,           \* installer: the sidecar file .install_script_hash
  currentHash,        \* installer: SHA-256 of the installer's own source
  requirements,       \* installer: main.requirements
  idx,                \* installer: index of the requirement being processed
  installed_packages, \* installer: main.installed_packages
  ridx,               \* installer: index in installed_packages during rollback
  ops,                \* installer: log of package-manager operations, in order
  prompts,            \* installer: log of console prompts and their answers
  manifestReads,      \* installer: number of times the manifest was opened
  pythonProbes        \* installer: number of runs of check_python_installation

ivars == <<pc, hashFile, currentHash, requirements, idx, installed_packages,
           ridx, ops, prompts, manifestReads, pythonProbes>>

vars == <<evars, ivars>>

\* the script that is not running
ExpanderIdle ==
  /\ epc = "idle"
  /\ input_file = NoFile
  /\ target_rows = 0
  /\ current_rows = 0
  /\ rows_to_add = 0
  /\ rows_added = 0
  /\ outFile = NoFile
  /\ outWrites = 0
  /\ apiCalls = << >>

InstallerIdle ==
  /\ pc = "idle"
  /\ hashFile = [exists |-> FALSE, hex |-> "", ws |-> FALSE]
  /\ currentHash = "d1"
  /\ requirements = << >>
  /\ idx = 1
  /\ installed_packages = << >>
  /\ ridx = 1
  /\ ops = << >>
  /\ prompts = << >>
  /\ manifestReads = 0
  /\ pythonProbes = 0

(***************************************************************************)
(* Expander: src/main.py                                                   *)
(***************************************************************************)
\* a deficit that is off by one: a dataset already at the target is expanded
RowsToAdd_mut(target, current) == Max(0, target - current + 1)

\* main.py:134   rows_to_add = max(0, target_rows - current_rows)
RowsToAdd(target, current) == Max(0, target - current)

\* a batch size that is not clamped to the remaining deficit
BatchSize_mut(toAdd, added) == BatchCap

\* main.py:153   new_rows = min(50, rows_to_add - rows_added)
BatchSize(toAdd, added) == Min(BatchCap, toAdd - added)

\* the output opened in mode 'w': every batch replaces the file's content
append_to_csv_mut(file, n, tag) == [exists |-> TRUE, rows |-> Rows(n, tag)]

\* main.py:76-81  append_to_csv: every row parsed from the response text is
\* written at the end of the file
append_to_csv(file, n, tag) == [exists |-> TRUE, rows |-> file.rows \o Rows(n, tag)]

AnalyzeCall(ok) == [kind |-> "analyze", n |-> 0, ok |-> ok, rows |-> 0]
ExpandCall(n, ok, r) == [kind |-> "expand", n |-> n, ok |-> ok, rows |-> r]

InitExpander ==
  /\ epc = "input"
  /\ input_file = NoFile
  /\ target_rows = 0
  /\ current_rows = 0
  /\ rows_to_add = 0
  /\ rows_added = 0
  /\ outFile \in InitialOutputFiles
  /\ outWrites = 0
  /\ apiCalls = << >>
  /\ InstallerIdle

\* main.py:106-114  prompt for the input path until read_csv_sample succeeds;
\* an interrupted or empty answer ends the run
ChooseInput ==
  /\ epc = "input"
  /\ \E cancelled \in BOOLEAN, f \in InputFiles :
       IF cancelled
       THEN /\ epc' = "cancelled"
            /\ UNCHANGED input_file
       ELSE IF f.exists
            THEN /\ input_file' = f
                 /\ epc' = "target"
            ELSE UNCHANGED <<epc, input_file>>
  /\ UNCHANGED <<target_rows, current_rows, rows_to_add, rows_added,
                 outFile, outWrites, apiCalls>>

\* main.py:116-120, 85-94  prompt until a positive integer is given; an
\* interrupted prompt yields None and the prompt is repeated
GetTarget ==
  /\ epc = "target"
  /\ \E interrupted \in BOOLEAN, t \in TargetInputs :
       IF ~interrupted /\ t > 0
       THEN /\ target_rows' = t
            /\ epc' = "read"
       ELSE UNCHANGED <<target_rows, epc>>
  /\ UNCHANGED <<input_file, current_rows, rows_to_add, rows_added,
                 outFile, outWrites, apiCalls>>

\* main.py:125-139  read the whole input, compute the deficit, stop when
\* there is none
ReadOriginal ==
  /\ epc = "read"
  /\ \E readOk \in BOOLEAN :
       IF ~readOk
       THEN /\ epc' = "read_error"
            /\ UNCHANGED <<current_rows, rows_to_add>>
       ELSE /\ current_rows' = Len(input_file.rows)
            /\ rows_to_add' = RowsToAdd(target_rows, Len(input_file.rows))
            /\ epc' = IF RowsToAdd(target_rows, Len(input_file.rows)) = 0
                      THEN "no_expansion" ELSE "analyze"
  /\ UNCHANGED <<input_file, target_rows, rows_added, outFile, outWrites, apiCalls>>

\* main.py:141-150  one analysis call; on success the original rows are
\* written to the output artifact (replacing whatever was there)
Analyze ==
  /\ epc = "analyze"
  /\ \E ok \in BOOLEAN :
       /\ apiCalls' = Append(apiCalls, AnalyzeCall(ok))
       /\ IF ~ok
          THEN /\ epc' = "analysis_failed"
               /\ UNCHANGED <<outFile, outWrites, rows_added>>
          ELSE /\ outFile' = [exists |-> TRUE, rows |-> input_file.rows]
               /\ outWrites' = outWrites + 1
               /\ rows_added' = 0
               /\ epc' = "loop"
  /\ UNCHANGED <<input_file, target_rows, current_rows, rows_to_add>>

\* main.py:152-160  one iteration of the expansion loop
ExpandBatch ==
  /\ epc = "loop"
  /\ rows_added < rows_to_add
  /\ LET new_rows == BatchSize(rows_to_add, rows_added)
         k == Cardinality({i \in 1..Len(apiCalls) : apiCalls[i].kind = "expand"}) + 1
     IN  \E ok \in BOOLEAN, r \in ResponseRowCounts(new_rows) :
           IF ~ok
           THEN /\ apiCalls' = Append(apiCalls, ExpandCall(new_rows, FALSE, 0))
                /\ epc' = "gen_failed"
                /\ UNCHANGED <<outFile, outWrites, rows_added>>
           ELSE /\ apiCalls' = Append(apiCalls, ExpandCall(new_rows, TRUE, r))
                /\ outFile' = append_to_csv(outFile, r, k)
                /\ outWrites' = outWrites + 1
                /\ rows_added' = rows_added + new_rows
                /\ UNCHANGED epc
  /\ UNCHANGED <<input_file, target_rows, current_rows, rows_to_add>>

\* main.py:152,162-163  the loop condition fails: completion is reported
LoopExit ==
  /\ epc = "loop"
  /\ ~(rows_added < rows_to_add)
  /\ epc' = "complete"
  /\ UNCHANGED <<input_file, target_rows, current_rows, rows_to_add,
                 rows_added, outFile, outWrites, apiCalls>>

NextExpander ==
  \/ ChooseInput /\ UNCHANGED ivars
  \/ GetTarget /\ UNCHANGED ivars
  \/ ReadOriginal /\ UNCHANGED ivars
  \/ Analyze /\ UNCHANGED ivars
  \/ ExpandBatch /\ UNCHANGED ivars
  \/ LoopExit /\ UNCHANGED ivars

SpecExpander == InitExpander /\ [][NextExpander]_vars

(***************************************************************************)
(* Installer: src/install.py                                               *)
(*                                                                         *)
(* Strings that the code inspects character by character (manifest lines,  *)
(* requirement strings, console answers) are sequences of one-character    *)
(* strings.                                                                *)
(***************************************************************************)
RECURSIVE LStrip(_)
LStrip(s) == IF s # << >> /\ Head(s) \in {" ", "\n", "\t"} THEN LStrip(Tail(s)) ELSE s

RECURSIVE RStrip(_)
RStrip(s) == IF s # << >> /\ s[Len(s)] \in {" ", "\n", "\t"}
             THEN RStrip(SubSeq(s, 1, Len(s) - 1)) ELSE s

\* str.strip()
Strip(s) == RStrip(LStrip(s))

\* str.lower(), one character
LowerChar(c) ==
  CASE c = "Y" -> "y"
    [] c = "N" -> "n"
    [] c = "E" -> "e"
    [] c = "S" -> "s"
    [] OTHER -> c

\* str.lower()
Lower(s) == [i \in DOMAIN s |-> LowerChar(s[i])]

\* install.py:43   the character class [a-zA-Z0-9_.-]
NameChars ==
  {"a","b","c","d","e","f","g","h","i","j","k","l","m","n","o","p","q","r",
   "s","t","u","v","w","x","y","z",
   "A","B","C","D","E","F","G","H","I","J","K","L","M","N","O","P","Q","R",
   "S","T","U","V","W","X","Y","Z",
   "0","1","2","3","4","5","6","7","8","9","_",".","-"}

\* install.py:43   the character class [<>=!]
OpChars == {"<", ">", "=", "!"}

\* s[from..to] is a non-empty run of [a-zA-Z0-9_.-]
IsName(s, from, to) == from <= to /\ \A i \in from..to : s[i] \in NameChars

\* install.py:41-43  re.match(r'^[a-zA-Z0-9_.-]+([<>=!]=?[a-zA-Z0-9_.-]+)?$')
validate_package_name(package) ==
  \E i \in 1..Len(package) :
    /\ IsName(package, 1, i)
    /\ \/ i = Len(package)
       \/ /\ i + 1 <= Len(package)
          /\ package[i + 1] \in OpChars
          /\ \/ IsName(package, i + 2, Len(package))
             \/ /\ i + 2 <= Len(package)
                /\ package[i + 2] = "="
                /\ IsName(package, i + 3, Len(package))

\* install.py:32-36  read_requirements: the stripped lines that are not blank
\* and do not start with '#'
read_requirements(lines) ==
  LET keep(line) == Strip(line) # << >> /\ ~(line # << >> /\ Head(line) = "#")
      kept == SelectSeq(lines, keep)
  IN  [i \in DOMAIN kept |-> Strip(kept[i])]

\* install.py:65   package.split('==')[0]
RECURSIVE SplitEqEq(_)
SplitEqEq(s) ==
  IF s = << >> THEN << >>
  ELSE IF Len(s) >= 2 /\ s[1] = "=" /\ s[2] = "=" THEN << >>
  ELSE <<Head(s)>> \o SplitEqEq(Tail(s))

\* the sidecar file: absent, or a hex digest (possibly empty) followed by
\* optional trailing whitespace
NoHashFile == [exists |-> FALSE, hex |-> "", ws |-> FALSE]
Digests == {"d1", "d2"}
HashFiles ==
  {NoHashFile} \cup [exists : {TRUE}, hex : Digests \cup {""}, ws : BOOLEAN]

\* install.py:105-111  load_script_hash: "" when the file is missing, else
\* its stripped content
load_script_hash(file) == IF file.exists THEN file.hex ELSE ""

\* install.py:100-103  save_script_hash
save_script_hash(hash_value) == [exists |-> TRUE, hex |-> hash_value, ws |-> FALSE]

\* what the user may type at a y/n prompt
Answers == { <<"y">>, <<"Y">>, <<"n">>, <<"y", "e", "s">>, << >> }

\* any answer but "n" taken as approval
Affirmative_mut(answer) == Lower(answer) # <<"n">>

\* install.py:125-126, 172   input(...).lower() == 'y'
Affirmative(answer) == Lower(answer) = <<"y">>

\* an approved change that is not persisted
self_check_mut(file, current_hash, answer) ==
  LET saved_hash == load_script_hash(file) IN
  IF saved_hash = ""
  THEN [ok |-> TRUE, file |-> save_script_hash(current_hash), prompted |-> FALSE]
  ELSE IF current_hash # saved_hash
       THEN [ok |-> Affirmative(answer), file |-> file, prompted |-> TRUE]
       ELSE [ok |-> TRUE, file |-> file, prompted |-> FALSE]

\* install.py:113-131  self_check: the result, the sidecar file afterwards
\* and whether the user was prompted
self_check(file, current_hash, answer) ==
  LET saved_hash == load_script_hash(file) IN
  IF saved_hash = ""
  THEN [ok |-> TRUE, file |-> save_script_hash(current_hash), prompted |-> FALSE]
  ELSE IF current_hash # saved_hash
       THEN IF Affirmative(answer)
            THEN [ok |-> TRUE, file |-> save_script_hash(current_hash), prompted |-> TRUE]
            ELSE [ok |-> FALSE, file |-> file, prompted |-> TRUE]
       ELSE [ok |-> TRUE, file |-> file, prompted |-> FALSE]

\* lines a manifest may hold
ManifestLinePool ==
  { <<"a">>,
    <<"b", "=", "=", "1">>,
    <<"c", ";", "d">>,
    <<"#", "x">>,
    <<" ">> }

\* the manifests: every sequence of at most MaxManifestLines lines
Manifests == UNION {[1..n -> ManifestLinePool] : n \in 0..MaxManifestLines}

InstallOp(package, ok) == [kind |-> "install", pkg |-> package, ok |-> ok]
UninstallOp(package, ok) == [kind |-> "uninstall", pkg |-> package, ok |-> ok]
ShowOp(name, ok) == [kind |-> "show", pkg |-> name, ok |-> ok]

SelfCheckPrompt(answer) == [kind |-> "self_check", pkg |-> << >>, answer |-> answer]
RollbackPrompt(package, answer) == [kind |-> "rollback", pkg |-> package, answer |-> answer]

\* a loop that never skips a requirement
ShouldSkip_mut(package) == FALSE

\* install.py:156-158  an invalid requirement is skipped
ShouldSkip(package) == ~validate_package_name(package)

\* install.py:161-168  the install record after a successful install
RecordInstalled(record, package, verified) ==
  IF verified THEN Append(record, package) ELSE record

InitInstaller ==
  /\ pc = "start"
  /\ hashFile \in HashFiles
  /\ currentHash \in Digests
  /\ requirements = << >>
  /\ idx = 1
  /\ installed_packages = << >>
  /\ ridx = 1
  /\ ops = << >>
  /\ prompts = << >>
  /\ manifestReads = 0
  /\ pythonProbes = 0
  /\ ExpanderIdle

\* install.py:113-131, 134-136  self_check and the exit on refusal
SelfCheck ==
  /\ pc = "start"
  /\ \E answer \in Answers :
       LET res == self_check(hashFile, currentHash, answer) IN
       /\ hashFile' = res.file
       /\ prompts' = IF res.prompted THEN Append(prompts, SelfCheckPrompt(answer))
                     ELSE prompts
       /\ pc' = IF res.ok THEN "probe" ELSE "exit_security"
  /\ UNCHANGED <<currentHash, requirements, idx, installed_packages, ridx,
                 ops, manifestReads, pythonProbes>>

\* install.py:138-141, 12-18  check_python_installation
CheckPython ==
  /\ pc = "probe"
  /\ \E ok \in BOOLEAN :
       /\ pythonProbes' = pythonProbes + 1
       /\ pc' = IF ok THEN "manifest" ELSE "no_python"
  /\ UNCHANGED <<hashFile, currentHash, requirements, idx, installed_packages,
                 ridx, ops, prompts, manifestReads>>

\* install.py:143-154  locate and read the manifest
ReadManifest ==
  /\ pc = "manifest"
  /\ \E present \in BOOLEAN, readable \in BOOLEAN, lines \in Manifests :
       IF ~present
       THEN /\ pc' = "no_manifest"
            /\ UNCHANGED <<requirements, manifestReads>>
       ELSE LET reqs == IF readable THEN read_requirements(lines) ELSE << >> IN
            /\ manifestReads' = manifestReads + 1
            /\ requirements' = reqs
            /\ pc' = IF reqs = << >> THEN "no_packages" ELSE "loop"
  /\ UNCHANGED <<hashFile, currentHash, idx, installed_packages, ridx, ops,
                 prompts, pythonProbes>>

\* install.py:155-177  one iteration of the loop over the requirements:
\* validate, install, verify and record, or ask about rollback
ProcessPackage ==
  /\ pc = "loop"
  /\ idx <= Len(requirements)
  /\ LET package == requirements[idx] IN
     IF ShouldSkip(package)
     THEN /\ idx' = idx + 1
          /\ UNCHANGED <<pc, installed_packages, ridx, ops, prompts>>
     ELSE \E success \in BOOLEAN :
            IF success
            THEN \* install.py:63-90  verify_installation: the import attempts,
                 \* then pip show as the last resort
                 \E imported \in BOOLEAN, show \in {"error", "no_version", "version"} :
                   LET verified == imported \/ show = "version" IN
                   /\ ops' = IF imported
                             THEN Append(ops, InstallOp(package, TRUE))
                             ELSE ops \o <<InstallOp(package, TRUE),
                                           ShowOp(SplitEqEq(package), show # "error")>>
                   /\ installed_packages' = RecordInstalled(installed_packages, package, verified)
                   /\ idx' = idx + 1
                   /\ UNCHANGED <<pc, ridx, prompts>>
            ELSE \E answer \in Answers :
                   /\ ops' = Append(ops, InstallOp(package, FALSE))
                   /\ prompts' = Append(prompts, RollbackPrompt(package, answer))
                   /\ IF Affirmative(answer)
                      THEN /\ pc' = "rollback"
                           /\ ridx' = 1
                           /\ UNCHANGED idx
                      ELSE /\ idx' = idx + 1
                           /\ UNCHANGED <<pc, ridx>>
                   /\ UNCHANGED installed_packages
  /\ UNCHANGED <<hashFile, currentHash, requirements, manifestReads, pythonProbes>>

\* install.py:174-175, 54-61  one uninstall of the rollback; a failure is
\* printed and the iteration goes on
Uninstall ==
  /\ pc = "rollback"
  /\ ridx <= Len(installed_packages)
  /\ \E ok \in BOOLEAN :
       ops' = Append(ops, UninstallOp(installed_packages[ridx], ok))
  /\ ridx' = ridx + 1
  /\ UNCHANGED <<pc, hashFile, currentHash, requirements, idx,
                 installed_packages, prompts, manifestReads, pythonProbes>>

\* install.py:176-177  the rollback is over
RollbackDone ==
  /\ pc = "rollback"
  /\ ridx > Len(installed_packages)
  /\ pc' = "rolled_back"
  /\ UNCHANGED <<hashFile, currentHash, requirements, idx, installed_packages,
                 ridx, ops, prompts, manifestReads, pythonProbes>>

\* install.py:179-180  every requirement was processed
InstallDone ==
  /\ pc = "loop"
  /\ idx > Len(requirements)
  /\ pc' = "completed"
  /\ UNCHANGED <<hashFile, currentHash, requirements, idx, installed_packages,
                 ridx, ops, prompts, manifestReads, pythonProbes>>

NextInstaller ==
  \/ SelfCheck /\ UNCHANGED evars
  \/ CheckPython /\ UNCHANGED evars
  \/ ReadManifest /\ UNCHANGED evars
  \/ ProcessPackage /\ UNCHANGED evars
  \/ Uninstall /\ UNCHANGED evars
  \/ RollbackDone /\ UNCHANGED evars
  \/ InstallDone /\ UNCHANGED evars

SpecInstaller == InitInstaller /\ [][NextInstaller]_vars

(***************************************************************************)
(* Properties of the expander (SpecExpander)                               *)
(***************************************************************************)
ExpandCalls == SelectSeq(apiCalls, LAMBDA c : c.kind = "expand")

\* ceil(a / b) for a >= 0, b > 0
CeilDiv(a, b) == (a + b - 1) \div b

RECURSIVE SumRequested(_)
SumRequested(calls) ==
  IF calls = << >> THEN 0 ELSE Head(calls).n + SumRequested(Tail(calls))

\* the rows of the responses calls[from], calls[from+1], ..., each tagged
\* with the number of its request
RECURSIVE ResponseRows(_, _)
ResponseRows(calls, from) ==
  IF from > Len(calls) THEN << >>
  ELSE (IF calls[from].ok THEN Rows(calls[from].rows, from) ELSE << >>)
       \o ResponseRows(calls, from + 1)

\* C3: when the loop reports completion and no API call failed, the output
\* holds exactly target_rows data rows, whatever the responses contained;
\* and while every response holds exactly the requested number of rows, the
\* output row count is current_rows plus the total requested so far.
C3_ExactlyTargetRows ==
  /\ epc = "complete" => Len(outFile.rows) = target_rows
  /\ (/\ epc \in {"loop", "complete"}
      /\ \A i \in 1..Len(ExpandCalls) : ExpandCalls[i].rows = ExpandCalls[i].n)
     => Len(outFile.rows) = current_rows + SumRequested(ExpandCalls)

\* C4: with deficit D = target_rows - current_rows > 0, the k-th generation
\* request asks for min(50, D - 50*(k-1)) rows, a size between 1 and 50;
\* never more than ceil(D/50) requests are issued, and when the loop ends
\* without an API failure exactly ceil(D/50) were issued, adding up to D.
C4_RequestSizes ==
  LET D == target_rows - Len(input_file.rows) IN
  /\ \A k \in 1..Len(ExpandCalls) :
       /\ ExpandCalls[k].n = Min(50, D - 50 * (k - 1))
       /\ ExpandCalls[k].n \in 1..50
  /\ ExpandCalls # << >> => Len(ExpandCalls) <= CeilDiv(D, 50)
  /\ epc = "complete" => /\ Len(ExpandCalls) = CeilDiv(D, 50)
                         /\ SumRequested(ExpandCalls) = D

\* C4 witness: the deficit 110 was served by the requests 50, 50, 10
C4_Witness ==
  /\ epc = "complete"
  /\ target_rows - current_rows = 110
  /\ Len(ExpandCalls) = 3
  /\ ExpandCalls[1].n = 50 /\ ExpandCalls[2].n = 50 /\ ExpandCalls[3].n = 10

\* C6: when target_rows <= current_rows (the rows of the input dataset), no
\* chat-API call is made and the output artifact is neither created nor
\* modified; the run ends in "no expansion needed".
C6_NoExpansionNoEffects ==
  (epc \notin {"idle", "input", "cancelled"} /\ target_rows <= Len(input_file.rows))
  => /\ apiCalls = << >>
     /\ outWrites = 0
     /\ outFile \in InitialOutputFiles
     /\ epc \in {"target", "read", "read_error", "no_expansion"}

\* C6 witness: a run that stopped at the idempotence boundary with a
\* positive target, the earlier output still in place
C6_Witness ==
  /\ epc = "no_expansion"
  /\ target_rows > 0
  /\ target_rows <= current_rows
  /\ outFile = DataFile(2, -1)

\* C8: once the output artifact is created, its row count never decreases
\* and never exceeds the target row count by more than one batch (50 rows),
\* whatever the responses contain.
C8_RowCountBounded ==
  [][epc = "loop" => /\ Len(outFile'.rows) >= Len(outFile.rows)
                     /\ Len(outFile'.rows) <= target_rows + 50]_vars

\* C9: a failed API call is the last call of the run (no retry, no further
\* request) and ends the run; after a failed k-th generation request the
\* output holds exactly the original rows followed by the rows of the
\* responses 1..k-1; after a failed analysis call there is no generation
\* request and the output artifact was never created or written.
C9_FailureStops ==
  /\ \A i \in 1..Len(apiCalls) : ~apiCalls[i].ok => i = Len(apiCalls)
  /\ (apiCalls # << >> /\ ~apiCalls[Len(apiCalls)].ok)
       => epc \in {"analysis_failed", "gen_failed"}
  /\ epc = "gen_failed"
       => /\ ~ExpandCalls[Len(ExpandCalls)].ok
          /\ outFile.exists
          /\ outFile.rows = input_file.rows \o ResponseRows(ExpandCalls, 1)
  /\ epc = "analysis_failed"
       => /\ ExpandCalls = << >>
          /\ outWrites = 0
          /\ outFile \in InitialOutputFiles

\* C9 witness: the third generation request failed after two batches were
\* appended
C9_Witness ==
  /\ epc = "gen_failed"
  /\ Len(ExpandCalls) = 3
  /\ ExpandCalls[1].rows > 0 /\ ExpandCalls[2].rows > 0
  /\ Len(outFile.rows) = current_rows + ExpandCalls[1].rows + ExpandCalls[2].rows

(***************************************************************************)
(* Properties of the installer (SpecInstaller)                             *)
(***************************************************************************)
InstallOps == SelectSeq(ops, LAMBDA o : o.kind = "install")
UninstallOps == SelectSeq(ops, LAMBDA o : o.kind = "uninstall")
Pkgs(s) == [i \in DOMAIN s |-> s[i].pkg]

\* C1: when the install of item i fails after items 1..i-1 were installed
\* successfully and rollback is approved, the rollback attempts an uninstall
\* of exactly the items 1..i-1, in that order, whatever the outcome of each
\* verification and each uninstall.
C1_RollbackCoversInstalled ==
  (/\ pc = "rolled_back"
   /\ Len(InstallOps) = idx
   /\ Pkgs(InstallOps) = SubSeq(requirements, 1, idx)
   /\ \A j \in 1..(idx - 1) : InstallOps[j].ok)
  => Pkgs(UninstallOps) = SubSeq(requirements, 1, idx - 1)

\* C2: every package whose install succeeded is in the install record,
\* whether or not its verification succeeded.
C2_InstalledRecorded ==
  installed_packages = Pkgs(SelectSeq(InstallOps, LAMBDA o : o.ok))

\* C5: when the self-check prompt (stored digest present and different) is
\* answered with anything but the affirmative token (the code lower-cases
\* the answer, so the token is "y" in either case), the process has halted
\* with no package-manager operation and without reading the manifest.
C5_RefusalHalts ==
  \A i \in 1..Len(prompts) :
    (prompts[i].kind = "self_check" /\ Lower(prompts[i].answer) # <<"y">>)
    => /\ pc = "exit_security"
       /\ ops = << >>
       /\ manifestReads = 0
       /\ requirements = << >>

\* C5 witness: a mismatching digest was refused with "n"
C5_Witness ==
  /\ pc = "exit_security"
  /\ prompts = <<SelfCheckPrompt(<<"n">>)>>
  /\ load_script_hash(hashFile) \notin {"", currentHash}

\* C7: install is invoked only for requirements that validate_package_name
\* accepts; a rejected requirement is never installed, never recorded and
\* never the subject of the rollback prompt, and the loop goes on to the
\* next requirement: the installs made are those of the valid requirements
\* among the ones processed.
C7_OnlyValidInstalled ==
  LET processed == IF pc \in {"rollback", "rolled_back"} THEN idx ELSE idx - 1 IN
  /\ \A i \in 1..Len(InstallOps) : validate_package_name(InstallOps[i].pkg)
  /\ \A i \in 1..Len(installed_packages) : validate_package_name(installed_packages[i])
  /\ \A i \in 1..Len(prompts) :
       prompts[i].kind = "rollback" => validate_package_name(prompts[i].pkg)
  /\ Pkgs(InstallOps) = SelectSeq(SubSeq(requirements, 1, processed), validate_package_name)

\* C7 witness: an invalid requirement was skipped and the next one installed
C7_Witness ==
  /\ pc = "completed"
  /\ requirements = << <<"c", ";", "d">>, <<"a">> >>
  /\ Pkgs(InstallOps) = << <<"a">> >>

\* C10: when self_check accepts, the stored digest afterwards is the digest
\* of the current source; the user is prompted only when a stored digest
\* exists and differs; when self_check refuses, the sidecar file is left as
\* it was; nothing after self_check touches the sidecar file.
C10_DigestState ==
  [][/\ pc = "start"
        => LET saved == load_script_hash(hashFile) IN
           /\ pc' = "probe" => load_script_hash(hashFile') = currentHash
           /\ prompts' # prompts => (saved # "" /\ saved # currentHash)
           /\ (saved = "" \/ saved = currentHash) => pc' = "probe"
           /\ pc' = "exit_security" => hashFile' = hashFile
     /\ pc # "start" => hashFile' = hashFile]_vars

\* C10 witness: a changed digest was approved and persisted
C10_Witness ==
  /\ pc = "probe"
  /\ Len(prompts) = 1
  /\ prompts[1].kind = "self_check"
  /\ hashFile = save_script_hash(currentHash)

====
